---------------------------- MODULE Spec2Model ----------------------------
(***************************************************************************)
(* A model of the storage-traits crate: the AsBytes codec (src/bytes.rs),  *)
(* the Storage trait's default methods (src/storage.rs) and the            *)
(* FileBackedStorage adapter (src/lib.rs).                                 *)
(*                                                                         *)
(* Machine integers (usize, u64) are UsizeBits wide.  An unchecked `+`,    *)
(* `-` or `*` that leaves the range panics when the build has overflow     *)
(* checks (debug profile) and wraps when it has not (release profile);     *)
(* the variable overflow_checks is the profile of the build.               *)
(***************************************************************************)
EXTENDS Integers, Sequences, FiniteSets

VARIABLES
    pc,               \* "start" | "ready" | "failed" | "panicked" | "codec"
    overflow_checks,  \* build profile: TRUE = arithmetic overflow panics
    NUM_BYTES,        \* <W as AsBytes>::NUM_BYTES of the word type
    SECTOR_SIZE,      \* S::to_usize(), the sector length in words
    file_exists,      \* whether the path names a file
    file,             \* the bytes of the file at the path
    size_in_sectors,  \* FileBackedStorage::size_in_sectors / Storage::capacity
    uninit,           \* word offsets the abstract medium reports Uninitialized
    built,            \* history: the constructor used and the count it recorded
    shadow,           \* history: sector index -> words last written to it
    last              \* the last call: its arguments and what it returned

vars == <<pc, overflow_checks, NUM_BYTES, SECTOR_SIZE, file_exists, file,
          size_in_sectors, uninit, built, shadow, last>>

----------------------------------------------------------------------------
(* Bounds of the model *)

\* width of usize (and of u64: a 64-bit target has both the same width)
UsizeBits == 5
\* longest file found at the path by from_file
MaxFileLen == 5
\* largest SECTOR_SIZE
MaxSectorLen == 2
\* largest sector count of a medium built by new / found in an existing file
MaxSectors == 2
\* longest output buffer handed to read_words
MaxBufLen == 3

\* how many evenly spread values of a word type the codec is run on
SampleCount == 150

\* a byte is a u8
ByteRadix == 256

RECURSIVE Pow(_, _)
Pow(b, e) == IF e = 0 THEN 1 ELSE b * Pow(b, e - 1)

UsizeMod == Pow(2, UsizeBits)
UsizeMax == UsizeMod - 1

Min(a, b) == IF a < b THEN a ELSE b

----------------------------------------------------------------------------
(* src/bytes.rs: AsBytes for the unsigned integer types *)

\* NUM_BYTES of the word types of impl_from_bytes! whose values fit the
\* integers of TLC: u8 and u16 (u32, u64, u128 and usize run the same macro body)
WordTypes == {1, 2}

\* the values of a word type of nb bytes
WordRange(nb) == 0 .. (Pow(ByteRadix, nb) - 1)

\* uN::to_le_bytes: least significant byte first
to_le_bytes_BE(v, nb) == [k \in 1..nb |-> (v \div Pow(ByteRadix, nb - k)) % ByteRadix]
to_le_bytes(v, nb) == [k \in 1..nb |-> (v \div Pow(ByteRadix, k - 1)) % ByteRadix]

\* uN::from_le_bytes
RECURSIVE from_le_bytes(_)
from_le_bytes(bytes) ==
    IF bytes = <<>> THEN 0
    ELSE Head(bytes) + ByteRadix * from_le_bytes(Tail(bytes))

\* AsBytes::to
to(v, nb) == to_le_bytes(v, nb)

\* AsBytes::from: None when the slice is short, else the word and the rest
from_NoSplit(bytes, nb) ==
    IF Len(bytes) < nb
    THEN [some |-> FALSE, val |-> 0, rest |-> <<>>]
    ELSE [some |-> TRUE, val |-> from_le_bytes(SubSeq(bytes, 1, nb)), rest |-> bytes]
from(bytes, nb) ==
    IF Len(bytes) < nb
    THEN [some |-> FALSE, val |-> 0, rest |-> <<>>]
    ELSE [some |-> TRUE,
          val |-> from_le_bytes(SubSeq(bytes, 1, nb)),
          rest |-> SubSeq(bytes, nb + 1, Len(bytes))]

----------------------------------------------------------------------------
(* Machine arithmetic *)

Overflows(x) == x < 0 \/ x > UsizeMax
Wrap(x) == x % UsizeMod

\* an unchecked `+`, `-`, `*` whose exact result is x: panics under overflow
\* checks, wraps without them
ArithPanics(x) == overflow_checks /\ Overflows(x)

----------------------------------------------------------------------------
(* src/errors.rs: ReadError / WriteError, and the outcomes of a call *)

Ok == [kind |-> "Ok", requested_offset |-> 0, max_offset |-> 0]
OutOfRange(requested, max) ==
    [kind |-> "OutOfRange", requested_offset |-> requested, max_offset |-> max]
Uninitialized(offset) ==
    [kind |-> "Uninitialized", requested_offset |-> offset, max_offset |-> 0]
\* std::io::Error of the given ErrorKind
IoError(k) == [kind |-> k, requested_offset |-> 0, max_offset |-> 0]
\* the call did not return: unwrap of None, a failed assert_eq!, an overflow
Panic == [kind |-> "Panic", requested_offset |-> 0, max_offset |-> 0]

----------------------------------------------------------------------------
(* std::fs::File, as FileBackedStorage uses it.  read_sector and             *)
(* write_sector seek to an absolute position before every transfer, so the  *)
(* position a call leaves behind is never read and is not kept.             *)

Zeros(n) == [k \in 1..n |-> 0]

\* File::read at position pos into a buffer of n bytes: what is there, at most n
file_read(bytes, pos, n) ==
    IF pos >= Len(bytes) THEN <<>>
    ELSE SubSeq(bytes, pos + 1, Min(pos + n, Len(bytes)))

\* File::write of buf at position pos: overwrites, extends, zero-fills a gap
file_write(bytes, pos, buf) ==
    LET padded == IF pos > Len(bytes) THEN bytes \o Zeros(pos - Len(bytes)) ELSE bytes
    IN  SubSeq(padded, 1, pos) \o buf
            \o SubSeq(padded, pos + Len(buf) + 1, Len(padded))

----------------------------------------------------------------------------
(* src/lib.rs: FileBackedStorage *)

\* lib.rs:100-104  S::to_u64().checked_mul(size_in_sectors).unwrap()
new_len(size) == SECTOR_SIZE * size

\* lib.rs:176-178, 214-216  sector_idx.checked_mul(S::to_usize()).unwrap()
seek_pos(sector_idx) == sector_idx * SECTOR_SIZE

\* lib.rs:183, 221  S::to_usize() * W::NUM_BYTES
sector_size_in_bytes == SECTOR_SIZE * NUM_BYTES

\* lib.rs:190-196  the words of the bytes read, copied into the buffer one by one
RECURSIVE decode_into(_, _, _)
decode_into(buf, buffer, idx) ==
    IF idx > SECTOR_SIZE THEN [panic |-> FALSE, buffer |-> buffer]
    ELSE LET d == from(buf, NUM_BYTES)
         IN  IF ~d.some THEN [panic |-> TRUE, buffer |-> buffer]
             ELSE decode_into(d.rest, [buffer EXCEPT ![idx] = d.val], idx + 1)

\* lib.rs:224-228  every word's bytes pushed onto the Vec, in order
RECURSIVE encode_words(_)
encode_words(words) ==
    IF words = <<>> THEN <<>>
    ELSE to(Head(words), NUM_BYTES) \o encode_words(Tail(words))

\* the bounds check of read_sector and write_sector (lib.rs:168, 206)
in_range_Inclusive(sector_idx) == sector_idx <= size_in_sectors
in_range(sector_idx) == sector_idx < size_in_sectors

\* lib.rs:163-199
read_sector(sector_idx, buffer) ==
    LET unchanged == [res |-> Panic, buffer |-> buffer, file |-> file, io |-> FALSE]
        pos == seek_pos(sector_idx)
        n == Wrap(sector_size_in_bytes)
        buf == file_read(file, pos, n)
        sought == [unchanged EXCEPT !.io = TRUE]
        dec == decode_into(buf, buffer, 1)
    IN  IF ~in_range(sector_idx)
        THEN [unchanged EXCEPT !.res = OutOfRange(sector_idx, size_in_sectors)]
        ELSE IF Overflows(pos) THEN unchanged
        ELSE IF ArithPanics(sector_size_in_bytes) THEN sought
        ELSE IF Len(buf) # n THEN sought
        ELSE IF dec.panic THEN [sought EXCEPT !.buffer = dec.buffer]
        ELSE [sought EXCEPT !.res = Ok, !.buffer = dec.buffer]

\* lib.rs:201-236
write_sector(sector_idx, words) ==
    LET unchanged == [res |-> Panic, file |-> file, io |-> FALSE]
        pos == seek_pos(sector_idx)
        n == Wrap(sector_size_in_bytes)
        buf == encode_words(words)
        sought == [unchanged EXCEPT !.io = TRUE]
    IN  IF ~in_range(sector_idx)
        THEN [unchanged EXCEPT !.res = OutOfRange(sector_idx, size_in_sectors)]
        ELSE IF Overflows(pos) THEN unchanged
        ELSE IF ArithPanics(sector_size_in_bytes) THEN sought
        ELSE IF Len(buf) # n THEN sought
        ELSE [sought EXCEPT !.res = Ok, !.file = file_write(file, pos, buf)]

\* lib.rs:91-111  new: create_new, then set_len; the outcome and the file left
new(size) ==
    IF file_exists
    THEN [res |-> IoError("AlreadyExists"), exists |-> TRUE, file |-> file]
    ELSE IF Overflows(new_len(size))
    THEN [res |-> Panic, exists |-> TRUE, file |-> <<>>]
    ELSE [res |-> Ok, exists |-> TRUE, file |-> Zeros(new_len(size))]

\* lib.rs:125  len.checked_rem(S::to_usize()) is Some(0)
is_whole_sectors(len) == SECTOR_SIZE # 0 /\ len % SECTOR_SIZE = 0

\* lib.rs:115-141  from_file: the outcome and the sector count it records
from_file ==
    IF ~file_exists
    THEN [res |-> IoError("NotFound"), size |-> 0]
    ELSE IF is_whole_sectors(Len(file))
    THEN [res |-> Ok, size |-> Len(file) \div SECTOR_SIZE]
    ELSE [res |-> IoError("InvalidInput"), size |-> 0]

\* lib.rs:144-149
from_file_with_explicit_size(size) ==
    LET f == from_file
    IN  IF f.res = Ok THEN [f EXCEPT !.size = size] ELSE f

----------------------------------------------------------------------------
(* src/storage.rs: the Storage trait *)

\* storage.rs:60 / lib.rs:159-161
capacity == size_in_sectors

\* storage.rs:63-65  self.capacity() * Self::SECTOR_SIZE::to_usize()
capacity_in_words ==
    [panic |-> ArithPanics(capacity * SECTOR_SIZE),
     val |-> Wrap(capacity * SECTOR_SIZE)]

\* storage.rs:68-70  self.capacity_in_words() * NUM_BYTES
capacity_in_bytes ==
    LET w == capacity_in_words
    IN  [panic |-> w.panic \/ ArithPanics(w.val * NUM_BYTES),
         val |-> Wrap(w.val * NUM_BYTES)]

\* the word an abstract medium holds at an offset
CellWord(offset) == (offset + 1) % Pow(ByteRadix, NUM_BYTES)

\* storage.rs:73-78  read_word, the required method: succeeds only for an
\* offset inside the medium, and may report a cell Uninitialized
read_word(word_offset) ==
    IF word_offset >= capacity * SECTOR_SIZE
    THEN [res |-> OutOfRange(word_offset, capacity_in_words.val), word |-> 0]
    ELSE IF word_offset \in uninit
    THEN [res |-> Uninitialized(word_offset), word |-> 0]
    ELSE [res |-> Ok, word |-> CellWord(word_offset)]

\* storage.rs:109-111  the loop of read_words, from index idx (0-based) on
RECURSIVE read_words_loop(_, _, _, _)
read_words_loop(word_offset, buffer, idx, calls) ==
    IF idx >= Len(buffer) THEN [res |-> Ok, buffer |-> buffer, calls |-> calls]
    ELSE IF ArithPanics(word_offset + idx)
    THEN [res |-> Panic, buffer |-> buffer, calls |-> calls]
    ELSE LET off == Wrap(word_offset + idx)
             r == read_word(off)
         IN  IF r.res # Ok
             THEN [res |-> r.res, buffer |-> buffer, calls |-> Append(calls, off)]
             ELSE read_words_loop(word_offset,
                                  [buffer EXCEPT ![idx + 1] = r.word],
                                  idx + 1, Append(calls, off))

\* storage.rs:101  word_offset + (buffer.len() - 1)
max_offset_exact(word_offset, len) == word_offset + Wrap(len - 1)

\* storage.rs:96-114  the default read_words
read_words(word_offset, buffer) ==
    LET stop == [res |-> Panic, buffer |-> buffer, calls |-> <<>>]
        max_offset == Wrap(max_offset_exact(word_offset, Len(buffer)))
        cap == capacity_in_words
    IN  IF ArithPanics(Len(buffer) - 1) THEN stop
        ELSE IF ArithPanics(max_offset_exact(word_offset, Len(buffer))) THEN stop
        ELSE IF cap.panic THEN stop
        ELSE IF max_offset >= cap.val
        THEN [stop EXCEPT !.res = OutOfRange(max_offset, cap.val)]
        ELSE read_words_loop(word_offset, buffer, 0, <<>>)

\* storage.rs:126-135  the default read_sector
Storage_read_sector(sector_idx, buffer) ==
    IF ArithPanics(sector_idx * SECTOR_SIZE)
    THEN [res |-> Panic, buffer |-> buffer, calls |-> <<>>]
    ELSE read_words(Wrap(sector_idx * SECTOR_SIZE), buffer)

----------------------------------------------------------------------------
(* The calls, their inputs and what is recorded of them: the operation, its  *)
(* index or offset argument (idx), its slice argument as handed in (arg),    *)
(* the output buffer as left (buffer), the result (res), a returned number   *)
(* (val), the offsets read_word was invoked with (calls), whether the file   *)
(* was sought or transferred (io), and for a read_sector whether the call    *)
(* before it was a successful write_sector of the same index (after_write).  *)

Call(op, idx, arg, buffer, res, val, calls, io) ==
    [op |-> op, idx |-> idx, arg |-> arg, buffer |-> buffer, res |-> res,
     val |-> val, calls |-> calls, io |-> io, after_write |-> FALSE]
NoCall == Call("none", 0, <<>>, <<>>, Ok, 0, <<>>, FALSE)

\* word values written to sectors (0x0102 and 0xFF01, cut to the word's
\* width): their bytes differ from each other at every position
WordSample(j) ==
    IF j % 2 = 0 THEN 258 % Pow(ByteRadix, NUM_BYTES)
    ELSE 65281 % Pow(ByteRadix, NUM_BYTES)
\* the sectors written: the two samples alternating, starting with either
SectorInputs == {[k \in 1..SECTOR_SIZE |-> WordSample(k + j)] : j \in 0..1}

\* an output buffer before a read: n words no medium of the model holds
Sentinel(n) == [k \in 1..n |-> 200]

\* sector indices and sector counts handed to the calls; the index below the
\* top of usize is in range of a medium of usize::MAX sectors, and is only read
SectorIdxInputs == (0..MaxSectors) \cup {UsizeMax - 1, UsizeMax}
WriteIdxInputs == (0..MaxSectors) \cup {UsizeMax}
SizeInputs == 0..MaxSectors
ExplicitSizeInputs == {1, UsizeMax}

\* a file found at the path: n bytes, each different from its neighbours
ExistingFile(n) == [k \in 1..n |-> 100 + k]

AfterCall(res) ==
    IF res = Ok THEN "ready" ELSE IF res = Panic THEN "panicked" ELSE "failed"

\* a panic ends the run; an error returned leaves the medium usable
AfterOp(res) == IF res = Panic THEN "panicked" ELSE pc

Fixed == UNCHANGED <<overflow_checks, NUM_BYTES, SECTOR_SIZE, uninit>>

----------------------------------------------------------------------------
(* FileBackedStorage: construction, then any sequence of calls *)

Init ==
    /\ pc = "start"
    /\ overflow_checks \in BOOLEAN
    /\ NUM_BYTES \in WordTypes
    /\ SECTOR_SIZE \in 1..MaxSectorLen
    /\ file_exists \in BOOLEAN
    /\ file \in IF file_exists THEN {ExistingFile(n) : n \in 0..MaxFileLen} ELSE {<<>>}
    /\ size_in_sectors = 0
    /\ uninit = {}
    /\ built = [by |-> "none", size |-> 0]
    /\ shadow = [i \in SectorIdxInputs |-> <<>>]
    /\ last = NoCall

New ==
    /\ pc = "start"
    /\ \E size \in SizeInputs :
         LET r == new(size)
         IN  /\ pc' = AfterCall(r.res)
             /\ file_exists' = r.exists
             /\ file' = r.file
             /\ size_in_sectors' = IF r.res = Ok THEN size ELSE size_in_sectors
             /\ built' = IF r.res = Ok THEN [by |-> "new", size |-> size] ELSE built
             /\ last' = Call("new", size, <<>>, <<>>, r.res, Len(file), <<>>, TRUE)
    /\ UNCHANGED shadow
    /\ Fixed

FromFile ==
    /\ pc = "start"
    /\ LET r == from_file
       IN  /\ pc' = AfterCall(r.res)
           /\ size_in_sectors' = r.size
           /\ built' = IF r.res = Ok THEN [by |-> "from_file", size |-> r.size] ELSE built
           /\ last' = Call("from_file", 0, <<>>, <<>>, r.res, Len(file), <<>>, TRUE)
    /\ UNCHANGED <<file_exists, file, shadow>>
    /\ Fixed

FromFileWithExplicitSize ==
    /\ pc = "start"
    /\ \E size \in ExplicitSizeInputs :
         LET r == from_file_with_explicit_size(size)
         IN  /\ pc' = AfterCall(r.res)
             /\ size_in_sectors' = r.size
             /\ built' = IF r.res = Ok
                         THEN [by |-> "from_file_with_explicit_size", size |-> r.size]
                         ELSE built
             /\ last' = Call("from_file_with_explicit_size", size, <<>>, <<>>,
                             r.res, Len(file), <<>>, TRUE)
    /\ UNCHANGED <<file_exists, file, shadow>>
    /\ Fixed

ReadSector ==
    /\ pc = "ready"
    /\ \E sector_idx \in SectorIdxInputs :
         LET before == Sentinel(SECTOR_SIZE)
             r == read_sector(sector_idx, before)
         IN  /\ pc' = AfterOp(r.res)
             /\ file' = r.file
             /\ last' = [Call("read_sector", sector_idx, before, r.buffer, r.res,
                              0, <<>>, r.io)
                         EXCEPT !.after_write = /\ last.op = "write_sector"
                                                /\ last.res = Ok
                                                /\ last.idx = sector_idx]
    /\ UNCHANGED <<file_exists, size_in_sectors, built, shadow>>
    /\ Fixed

WriteSector ==
    /\ pc = "ready"
    /\ \E sector_idx \in WriteIdxInputs, words \in SectorInputs :
         LET r == write_sector(sector_idx, words)
         IN  /\ pc' = AfterOp(r.res)
             /\ file' = r.file
             /\ shadow' = IF r.res = Ok THEN [shadow EXCEPT ![sector_idx] = words]
                          ELSE shadow
             /\ last' = Call("write_sector", sector_idx, words, <<>>, r.res,
                             0, <<>>, r.io)
    /\ UNCHANGED <<file_exists, size_in_sectors, built>>
    /\ Fixed

Capacity ==
    /\ pc = "ready"
    /\ last' = Call("capacity", 0, <<>>, <<>>, Ok, capacity, <<>>, FALSE)
    /\ UNCHANGED <<pc, file_exists, file, size_in_sectors, built, shadow>>
    /\ Fixed

CapacityInWords ==
    /\ pc = "ready"
    /\ LET r == capacity_in_words
       IN  /\ pc' = IF r.panic THEN "panicked" ELSE pc
           /\ last' = Call("capacity_in_words", 0, <<>>, <<>>,
                           IF r.panic THEN Panic ELSE Ok, r.val, <<>>, FALSE)
    /\ UNCHANGED <<file_exists, file, size_in_sectors, built, shadow>>
    /\ Fixed

CapacityInBytes ==
    /\ pc = "ready"
    /\ LET r == capacity_in_bytes
       IN  /\ pc' = IF r.panic THEN "panicked" ELSE pc
           /\ last' = Call("capacity_in_bytes", 0, <<>>, <<>>,
                           IF r.panic THEN Panic ELSE Ok, r.val, <<>>, FALSE)
    /\ UNCHANGED <<file_exists, file, size_in_sectors, built, shadow>>
    /\ Fixed

Next ==
    \/ New
    \/ FromFile
    \/ FromFileWithExplicitSize
    \/ ReadSector
    \/ WriteSector
    \/ Capacity
    \/ CapacityInWords
    \/ CapacityInBytes

Spec == Init /\ [][Next]_vars

----------------------------------------------------------------------------
(* The default methods of Storage on an abstract medium *)

CapacityInputs == (0..MaxSectors) \cup {UsizeMax - 1, UsizeMax}
\* word offsets handed to read_words: around the small capacities and at the
\* top of usize
OffsetInputs ==
    (0..(MaxSectors * MaxSectorLen + 1)) \cup ((UsizeMax - MaxBufLen)..UsizeMax)
\* the first sector index whose word offset does not fit usize, if any
WrappingIdxInputs == {(UsizeMax \div SECTOR_SIZE) + 1} \cap (0..UsizeMax)
UninitInputs == {{}} \cup {{k} : k \in 1..(MaxBufLen - 1)}

InitWords ==
    /\ pc = "ready"
    /\ overflow_checks \in BOOLEAN
    /\ NUM_BYTES \in WordTypes
    /\ SECTOR_SIZE \in 1..MaxSectorLen
    /\ file_exists = FALSE
    /\ file = <<>>
    /\ size_in_sectors \in CapacityInputs
    /\ uninit \in UninitInputs
    /\ built = [by |-> "medium", size |-> size_in_sectors]
    /\ shadow = <<>>
    /\ last = NoCall

ReadWords ==
    /\ pc = "ready"
    /\ \E word_offset \in OffsetInputs, len \in 0..MaxBufLen :
         LET before == Sentinel(len)
             r == read_words(word_offset, before)
         IN  /\ pc' = AfterOp(r.res)
             /\ last' = Call("read_words", word_offset, before, r.buffer, r.res,
                             0, r.calls, FALSE)
    /\ UNCHANGED <<file_exists, file, size_in_sectors, built, shadow>>
    /\ Fixed

ReadSectorDefault ==
    /\ pc = "ready"
    /\ \E sector_idx \in SectorIdxInputs \cup WrappingIdxInputs :
         LET before == Sentinel(SECTOR_SIZE)
             r == Storage_read_sector(sector_idx, before)
         IN  /\ pc' = AfterOp(r.res)
             /\ last' = Call("read_sector", sector_idx, before, r.buffer, r.res,
                             0, r.calls, FALSE)
    /\ UNCHANGED <<file_exists, file, size_in_sectors, built, shadow>>
    /\ Fixed

NextWords ==
    \/ ReadWords
    \/ ReadSectorDefault
    \/ Capacity
    \/ CapacityInWords
    \/ CapacityInBytes

SpecWords == InitWords /\ [][NextWords]_vars

----------------------------------------------------------------------------
(* The codec on its own: a word encoded, then slices of its bytes decoded *)

\* the values of a word type the codec is run on: the low ones, the highest
\* ones and SampleCount evenly spread ones
WordVals(nb) ==
    LET max == Pow(ByteRadix, nb) - 1
        stride == (max \div SampleCount) + 1
    IN  ((0..(ByteRadix + 1)) \cup {max - 1, max} \cup {k * stride : k \in 0..SampleCount})
            \cap WordRange(nb)

\* the slices handed to AsBytes::from: every prefix of the encoding, and the
\* encoding with bytes after it
FromInputs(bytes) ==
    {SubSeq(bytes, 1, k) : k \in 0..Len(bytes)} \cup {bytes \o <<9>>, bytes \o <<0, 255>>}

None == [kind |-> "None", requested_offset |-> 0, max_offset |-> 0]

InitCodec ==
    /\ pc = "codec"
    /\ overflow_checks = TRUE
    /\ NUM_BYTES \in WordTypes
    /\ SECTOR_SIZE = 1
    /\ file_exists = FALSE
    /\ file = <<>>
    /\ size_in_sectors = 0
    /\ uninit = {}
    /\ built = [by |-> "none", size |-> 0]
    /\ shadow = <<>>
    /\ last = NoCall

To ==
    /\ pc = "codec"
    /\ \E v \in WordVals(NUM_BYTES) :
         last' = Call("to", v, <<>>, to(v, NUM_BYTES), Ok, v, <<>>, FALSE)
    /\ UNCHANGED <<pc, file_exists, file, size_in_sectors, built, shadow>>
    /\ Fixed

From ==
    /\ pc = "codec"
    /\ last.op = "to"
    /\ \E bytes \in FromInputs(last.buffer) :
         LET d == from(bytes, NUM_BYTES)
         IN  last' = Call("from", last.idx, bytes, d.rest,
                          IF d.some THEN Ok ELSE None, d.val, <<>>, FALSE)
    /\ UNCHANGED <<pc, file_exists, file, size_in_sectors, built, shadow>>
    /\ Fixed

NextCodec ==
    \/ To
    \/ From

SpecCodec == InitCodec /\ [][NextCodec]_vars

----------------------------------------------------------------------------
(* Claims about FileBackedStorage, under Spec *)

\* C1: a read_sector(i) that directly follows a successful write_sector(i, words)
\* returns Ok and leaves the buffer equal, word for word, to the words written.
C1_WriteReadIdentity ==
    (last.op = "read_sector" /\ last.after_write)
        => (last.res = Ok /\ last.buffer = shadow[last.idx])

\* a two-byte-word sector other than the first, written and read straight back
C1_Witness ==
    /\ last.op = "read_sector"
    /\ last.after_write
    /\ last.idx = 1
    /\ NUM_BYTES = 2
    /\ SECTOR_SIZE = 2
    /\ last.buffer # last.arg
    /\ last.buffer[1] # last.buffer[2]

\* the bytes [i * sector_bytes, (i+1) * sector_bytes) of the claim, as indices
SectorBytes == SECTOR_SIZE * NUM_BYTES
InSectorRegion(k, i) == i * SectorBytes < k /\ k <= (i + 1) * SectorBytes

\* C2: a successful write_sector(i, words) changes only the bytes of the file in
\* [i * sector_bytes, (i+1) * sector_bytes), and so every read_sector(j) of a
\* valid j returns the words most recently written to sector j.  (The frame is
\* stated for the media whose sector count was not given explicitly.)
C2_WriteFrame ==
    /\ [][(/\ last'.op = "write_sector"
            /\ last'.res = Ok
            /\ built.by # "from_file_with_explicit_size")
            => \A k \in 1..(Len(file) + Len(file')) :
                 \/ InSectorRegion(k, last'.idx)
                 \/ (k > Len(file) /\ k > Len(file'))
                 \/ (k <= Len(file) /\ k <= Len(file') /\ file'[k] = file[k])]_vars
    /\ []((last.op = "read_sector" /\ last.idx < size_in_sectors
              /\ shadow[last.idx] # <<>>)
            => (last.res = Ok /\ last.buffer = shadow[last.idx]))

\* C5: read_sector and write_sector with sector_idx >= capacity() fail with
\* OutOfRange{sector_idx, capacity()} before any seek or transfer: the file is
\* as it was, and so is the output buffer of read_sector.
C5_OutOfRangeUntouched ==
    [][(last'.op \in {"read_sector", "write_sector"} /\ last'.idx >= capacity)
        => /\ last'.res = OutOfRange(last'.idx, capacity)
           /\ ~last'.io
           /\ file' = file
           /\ file_exists' = file_exists
           /\ size_in_sectors' = size_in_sectors
           /\ (last'.op = "read_sector" => last'.buffer = last'.arg)]_vars

\* a read of the sector just past the end of a medium that has been written to
C5_Witness ==
    /\ last.op = "read_sector"
    /\ last.idx = size_in_sectors
    /\ last.res.kind = "OutOfRange"
    /\ size_in_sectors > 0
    /\ shadow[0] # <<>>

\* C6: a medium built by new(path, size_in_sectors) has a file of exactly
\* size_in_sectors * sector_length * word_byte_width bytes, after construction
\* and after any sequence of read_sector and write_sector calls.
C6_FileLength ==
    built.by = "new" => Len(file) = built.size * SECTOR_SIZE * NUM_BYTES

\* C7: from_file on an existing file fails with InvalidInput when the length is
\* not a multiple of sector_length * word_byte_width, and otherwise succeeds
\* with capacity() = length / (sector_length * word_byte_width).
C7_FromFile ==
    (last.op = "from_file" /\ file_exists)
        => IF Len(file) % SectorBytes # 0
           THEN last.res = IoError("InvalidInput")
           ELSE last.res = Ok /\ capacity = Len(file) \div SectorBytes

\* C9: on a constructed FileBackedStorage capacity() is the sector count recorded
\* at construction, capacity_in_words() is capacity() * sector_length and
\* capacity_in_bytes() is capacity() * sector_length * word_byte_width, exactly.
C9_CapacityConsistency ==
    /\ pc = "ready" => capacity = built.size
    /\ last.op = "capacity" => last.val = built.size
    /\ last.op = "capacity_in_words"
         => (last.res = Ok /\ last.val = built.size * SECTOR_SIZE)
    /\ last.op = "capacity_in_bytes"
         => (last.res = Ok /\ last.val = built.size * SECTOR_SIZE * NUM_BYTES)

----------------------------------------------------------------------------
(* Claims about the default methods of Storage, under SpecWords *)

\* C3: the default read_words with a non-empty buffer and
\* word_offset + len(buffer) - 1 >= capacity_in_words() returns
\* OutOfRange{word_offset + len(buffer) - 1, capacity_in_words()}, does not
\* invoke read_word and leaves the buffer as it was.  (Stated for the media
\* whose capacity_in_words() itself fits usize.)
C3_ReadWordsOutOfRange ==
    (/\ last.op = "read_words"
     /\ Len(last.arg) > 0
     /\ ~Overflows(capacity * SECTOR_SIZE)
     /\ last.idx + Len(last.arg) - 1 >= capacity * SECTOR_SIZE)
        => /\ last.res = OutOfRange(last.idx + Len(last.arg) - 1, capacity * SECTOR_SIZE)
           /\ last.calls = <<>>
           /\ last.buffer = last.arg

\* C4: the default read_words with an empty buffer returns Ok(()) for any
\* word_offset and capacity, without invoking read_word and without
\* len(buffer) - 1 underflowing.
C4_ReadWordsEmpty ==
    (last.op = "read_words" /\ last.arg = <<>>)
        => (last.res = Ok /\ last.calls = <<>>)

\* C8: the offset arithmetic never wraps silently: a read_words whose exact
\* word_offset + len(buffer) - 1 is >= capacity_in_words() does not return Ok
\* and never invokes read_word at an offset >= capacity_in_words();
\* capacity_in_words(), capacity_in_bytes() and the sector_idx * sector_length
\* of the default read_sector equal the exact product or fail loudly.
C8_NoSilentWrap ==
    /\ (/\ last.op = "read_words"
        /\ Len(last.arg) > 0
        /\ last.idx + Len(last.arg) - 1 >= capacity * SECTOR_SIZE)
          => /\ last.res # Ok
             /\ \A k \in 1..Len(last.calls) : last.calls[k] < capacity * SECTOR_SIZE
    /\ last.op = "capacity_in_words"
          => (last.res = Panic \/ last.val = capacity * SECTOR_SIZE)
    /\ last.op = "capacity_in_bytes"
          => (last.res = Panic \/ last.val = capacity * SECTOR_SIZE * NUM_BYTES)
    /\ (last.op = "read_sector" /\ Overflows(last.idx * SECTOR_SIZE))
          => last.res # Ok

----------------------------------------------------------------------------
(* Claims about the codec, under SpecCodec *)

\* C10: AsBytes::to(v) is exactly NUM_BYTES bytes, least significant first, and
\* AsBytes::from of those bytes is Some((v, empty remainder)).
C10_RoundTrip ==
    /\ last.op = "to"
         => /\ Len(last.buffer) = NUM_BYTES
            /\ \A k \in 1..NUM_BYTES : last.buffer[k] \in 0..(ByteRadix - 1)
            /\ last.buffer[1] = last.val % ByteRadix
            /\ last.buffer[NUM_BYTES] = last.val \div Pow(ByteRadix, NUM_BYTES - 1)
    /\ (last.op = "from" /\ Len(last.arg) = NUM_BYTES)
         => (last.res = Ok /\ last.val = last.idx /\ last.buffer = <<>>)

\* a two-byte word with different bytes, encoded and decoded back
C10_Witness ==
    /\ last.op = "from"
    /\ NUM_BYTES = 2
    /\ Len(last.arg) = NUM_BYTES
    /\ last.arg[1] # last.arg[2]
    /\ last.res = Ok
    /\ last.val = 65534

----------------------------------------------------------------------------
(* Further claims *)

\* C11: whenever the default read_words returns an error of any kind, also one
\* propagated from read_word at an index k > 0 after the range check passed,
\* every element of the output buffer is as it was before the call.
C11_ErrorLeavesBuffer ==
    (last.op = "read_words" /\ last.res # Ok /\ last.res # Panic)
        => last.buffer = last.arg

\* C12: on a FileBackedStorage of any constructor, after any calls, every
\* read_sector(sector_idx) with sector_idx < capacity() finds a full sector of
\* bytes at its seek position and does not panic.
C12_ReadSectorNeverPanics ==
    (last.op = "read_sector" /\ last.idx < size_in_sectors)
        => last.res # Panic

=============================================================================
